---- MODULE Spec2Model ----
(***************************************************************************)
(* Model of the critical-CSS pipeline of critical-css-craftcms:            *)
(* src/generate.mjs (fetchHtml, getBuiltCssInfo, generateCriticalCss).     *)
(*                                                                         *)
(* Strings the code only compares or copies are TLA+ strings.  Strings the *)
(* code takes apart are sequences:                                         *)
(*   - a path or URL path is a sequence of segments, a segment being       *)
(*     [base, ext] so that endsWith('.css') and the appended suffix        *)
(*     '_critical.min.css' can be computed;                                *)
(*   - an HTML document is a sequence of tokens (tags, comments and        *)
(*     one-character text), on which the code's regular expressions are    *)
(*     evaluated token by token, leftmost match first, lazily.             *)
(***************************************************************************)
EXTENDS Integers, Sequences, FiniteSets, TLC

VARIABLES
    pages,          \* config.pages
    manifest,       \* the file at projectRoot/manifestPath (or its absence)
    assets,         \* the directory projectRoot/web/dist/assets (or its absence)
    pc,             \* position of generateCriticalCss
    cssInfo,        \* const cssInfo (line 72)
    i,              \* index of the page the for-of loop is at (1-based)
    results,        \* const results (line 82)
    rawHtml,        \* the text fetchHtml resolved with (line 92, right-hand side)
    html,           \* let html (line 92)
    processedHtml,  \* const processedHtml (line 105)
    criticalCss,    \* let criticalCss (line 108)
    thrown,         \* message of the error in flight / raised to the caller
    dirs,           \* directories that exist
    files,          \* regular files that exist, with their content
    files0,         \* the regular files that existed when the run started
    pageStart,      \* the directories and files as they were when the page began
    warnings,       \* console.warn calls so far
    fetched,        \* URLs requested so far
    responses,      \* what each request came back with
    summary,        \* the value returned (line 155)
    publicDir,      \* config.publicDir
    publicPath,     \* config.publicPath
    beasties,       \* const beasties (line 76): the options it was built with
    reads,          \* what getBuiltCssInfo has read so far
    engineCalls,    \* indexes of the pages beasties.process was called for
    oracle,         \* what the site, the engine and the disk answer for each page
    run,            \* number of the run in progress
    prev,           \* summary and files the run before left
    exit            \* the status the process ended with, if it has

vars == <<pages, manifest, assets, pc, cssInfo, i, results, rawHtml, html, processedHtml,
          criticalCss, thrown, dirs, files, files0, pageStart, warnings, fetched, responses, summary,
          publicDir, publicPath, beasties, reads, engineCalls, oracle, run, prev, exit>>

(***************************************************************************)
(* Bounds                                                                  *)
(***************************************************************************)
MaxPages == 2

MaxHtmlLen == 4

(***************************************************************************)
(* Configuration (bin/critical-css-craftcms.mjs lines 96-109, defaults)    *)
(***************************************************************************)
Seg(b, e) == [base |-> b, ext |-> e]

Dir(name) == Seg(name, "")

projectRoot == <<Dir("proj")>>

baseUrl == "https://site.test"

appEntry == "src/js/app.ts"

outputDir == projectRoot \o <<Dir("web"), Dir("dist"), Dir("criticalcss")>>

None == [none |-> TRUE]

(***************************************************************************)
(* path helpers                                                            *)
(***************************************************************************)
Front(s) == SubSeq(s, 1, Len(s) - 1)

Last(s) == s[Len(s)]

\* path.join of already normalised parts
join(a, b) == a \o b

\* path.dirname
dirname(p) == Front(p)

\* every proper, non-empty prefix of p, and p itself
Prefixes(p) == {SubSeq(p, 1, n) : n \in 1..Len(p)}

(***************************************************************************)
(* Asset Locator: getBuiltCssInfo (lines 13-48)                            *)
(*                                                                         *)
(* manifest is what readFile + JSON.parse meet at projectRoot/manifestPath:*)
(*   [kind |-> "missing"]    readFile rejects                              *)
(*   [kind |-> "malformed"]  JSON.parse throws                             *)
(*   [kind |-> "null"]       the JSON text null: manifest[appEntry] throws *)
(*   [kind |-> "object", entries |-> f]  f maps entry keys to              *)
(*        [hasCss |-> BOOLEAN, css |-> sequence of relative paths]         *)
(* assets is [exists |-> BOOLEAN, list |-> names as readdir returns them]. *)
(***************************************************************************)
AppCss == <<Dir("assets"), Seg("app-1a2b", "css")>>

VendorCss == <<Dir("assets"), Seg("vendor", "css")>>

OtherEntry == "src/js/other.ts"

Entry(has, css) == [hasCss |-> has, css |-> css]

AppEntryShapes ==
    {Entry(FALSE, <<>>), Entry(TRUE, <<>>), Entry(TRUE, <<AppCss>>),
     Entry(TRUE, <<VendorCss, AppCss>>)}

ManifestObjects ==
    {[kind |-> "object", entries |-> f] :
        f \in UNION {[d -> AppEntryShapes] : d \in SUBSET {appEntry, OtherEntry}}}

Manifests ==
    {[kind |-> "missing"], [kind |-> "malformed"], [kind |-> "null"]}
        \cup ManifestObjects

AssetNames ==
    {Seg("fallback", "css"), Seg("zeta", "css"), Seg("main", "js"), Seg("SHOUT", "CSS")}

Listings ==
    {<<>>} \cup {<<a>> : a \in AssetNames}
           \cup {<<p[1], p[2]>> : p \in {q \in AssetNames \X AssetNames : q[1] # q[2]}}

AssetDirs ==
    {[exists |-> FALSE, list |-> <<>>]}
        \cup {[exists |-> TRUE, list |-> l] : l \in Listings}

\* variant: the extension compared without regard to case
EndsWithCssAnyCase(f) == f.ext \in {"css", "CSS"}

\* f.endsWith('.css') (line 35)
EndsWithCss(f) == f.ext = "css"

CssInfo(cssFile) ==
    [absolutePath |-> join(projectRoot, join(<<Dir("web"), Dir("dist")>>, cssFile)),
     href |-> <<Dir("dist")>> \o cssFile]

\* lines 17-29: does the try block throw (and the catch warn)?
ManifestThrows(m) == m.kind \in {"missing", "malformed", "null"}

\* line 20: entry && entry.css && entry.css.length > 0
ManifestUsable(m, key) ==
    /\ m.kind = "object"
    /\ key \in DOMAIN m.entries
    /\ m.entries[key].hasCss
    /\ Len(m.entries[key].css) > 0

\* variant: the last CSS file of the entry in place of the first
ManifestInfoLast(m, key) == CssInfo(Last(m.entries[key].css))

\* lines 21-25
ManifestInfo(m, key) == CssInfo(m.entries[key].css[1])

\* line 35: files.filter(f => f.endsWith('.css'))
cssFiles(list) == SelectSeq(list, EndsWithCss)

\* line 36
FallbackUsable(a) == a.exists /\ Len(cssFiles(a.list)) > 0

\* variant: the last .css file of the listing in place of the first
FallbackInfoLast(a) == CssInfo(<<Dir("assets"), Last(cssFiles(a.list))>>)

\* lines 37-41
FallbackInfo(a) == CssInfo(<<Dir("assets"), cssFiles(a.list)[1]>>)

NoCssError == [msg |-> "No CSS files found in web/dist/. Run your Vite build first."]

ManifestWarning == "Could not read Vite manifest, looking for CSS files directly"

(***************************************************************************)
(* HTML as token sequences                                                 *)
(*   c is the letter case of the tag name and attribute names as written,  *)
(*   q the quoting of a link's rel value ("dq", "sq" or "none").           *)
(***************************************************************************)
StyleOpen(c, a) == [k |-> "style", c |-> c, a |-> a]

StyleClose(c) == [k |-> "/style", c |-> c]

Link(c, rel, q, href) == [k |-> "link", c |-> c, rel |-> rel, q |-> q, href |-> href]

HeadClose(c) == [k |-> "/head", c |-> c]

Tag(name) == [k |-> "tag", v |-> name]

Text(v) == [k |-> "text", v |-> v]

Comment(v) == [k |-> "comment", v |-> v]

\* '<!-- existing-style-placeholder -->' (line 96)
Placeholder == Comment("existing-style-placeholder")

IsStyleOpen(t) == t.k = "style"

IsStyleClose(t) == t.k = "/style"

HasStyleClose(h) == \E n \in 1..Len(h) : IsStyleClose(h[n])

\* index of the first </style> of h (lazy [\s\S]*?)
FirstStyleClose(h) ==
    CHOOSE n \in 1..Len(h) :
        IsStyleClose(h[n]) /\ \A m \in 1..(n - 1) : ~IsStyleClose(h[m])

\* line 95: html.replace(/<style[^>]*>([\s\S]*?)<\/style>/gi, placeholder)
RECURSIVE StripStyles(_)
StripStyles(h) ==
    IF h = <<>> THEN <<>>
    ELSE IF IsStyleOpen(h[1]) /\ HasStyleClose(Tail(h))
         THEN <<Placeholder>>
                \o StripStyles(SubSeq(h, FirstStyleClose(Tail(h)) + 2, Len(h)))
         ELSE <<h[1]>> \o StripStyles(Tail(h))

\* /<link[^>]*rel=["']stylesheet["'][^>]*>/gi matches t
IsStylesheetLink(t) ==
    t.k = "link" /\ t.rel = "stylesheet" /\ t.q \in {"dq", "sq"}

KeepToken(t) == ~IsStylesheetLink(t)

\* line 100: html.replace(/<link[^>]*rel=["']stylesheet["'][^>]*>/gi, '')
StripLinks(h) == SelectSeq(h, KeepToken)

\* the string '</head>' (line 103): String.prototype.replace with a string
\* pattern is case-sensitive and replaces the first occurrence only
IsHeadCloseLiteral(t) == t.k = "/head" /\ t.c = "lower"

HasHeadClose(h) == \E n \in 1..Len(h) : IsHeadCloseLiteral(h[n])

FirstHeadClose(h) ==
    CHOOSE n \in 1..Len(h) :
        IsHeadCloseLiteral(h[n]) /\ \A m \in 1..(n - 1) : ~IsHeadCloseLiteral(h[m])

\* `<link rel="stylesheet" href="${cssInfo.href}">` (line 103)
InjectedLink(href) == Link("lower", "stylesheet", "dq", href)

\* line 103: html.replace('</head>', `<link ...>\n</head>`)
InjectLink(h, href) ==
    IF HasHeadClose(h)
    THEN SubSeq(h, 1, FirstHeadClose(h) - 1)
            \o <<InjectedLink(href), Text("\n")>>
            \o SubSeq(h, FirstHeadClose(h), Len(h))
    ELSE h

\* variant: the link injected before the existing links are removed
SanitizeHtmlInjectFirst(h, href) == StripLinks(InjectLink(StripStyles(h), href))

\* lines 94-103
SanitizeHtml(h, href) == InjectLink(StripLinks(StripStyles(h)), href)

(***************************************************************************)
(* Output Extractor (lines 107-129)                                        *)
(***************************************************************************)
\* <style[^>]*data-href[^>]*> matches t
IsMarkedStyle(t) == IsStyleOpen(t) /\ t.a = "data-href"

\* /<style[^>]*data-href[^>]*>([\s\S]*?)<\/style>/i matches at position n
MarkedMatchAt(h, n) ==
    IsMarkedStyle(h[n]) /\ HasStyleClose(SubSeq(h, n + 1, Len(h)))

HasMarkedMatch(h) == \E n \in 1..Len(h) : MarkedMatchAt(h, n)

FirstMarkedMatch(h) ==
    CHOOSE n \in 1..Len(h) :
        MarkedMatchAt(h, n) /\ \A m \in 1..(n - 1) : ~MarkedMatchAt(h, m)

\* criticalStyleMatch[1] (line 112)
MarkedContent(h) ==
    LET n == FirstMarkedMatch(h)
        rest == SubSeq(h, n + 1, Len(h))
    IN  SubSeq(rest, 1, FirstStyleClose(rest) - 1)

\* match[0].includes('existing-style-placeholder') (line 116)
IncludesPlaceholder(block) == \E n \in 1..Len(block) : block[n] = Placeholder

\* lines 114-119: matchAll(/<style[^>]*>([\s\S]*?)<\/style>/gi)
RECURSIVE NewStyleContent(_)
NewStyleContent(h) ==
    IF h = <<>> THEN <<>>
    ELSE IF IsStyleOpen(h[1]) /\ HasStyleClose(Tail(h))
         THEN LET q == FirstStyleClose(Tail(h)) + 1
              IN  (IF IncludesPlaceholder(SubSeq(h, 1, q))
                   THEN <<>>
                   ELSE SubSeq(h, 2, q - 1))
                    \o NewStyleContent(SubSeq(h, q + 1, Len(h)))
         ELSE NewStyleContent(Tail(h))

\* variant: an empty marked block counts as no match (if (match && match[1]))
ExtractCriticalCssSkipEmpty(h) ==
    IF HasMarkedMatch(h) /\ MarkedContent(h) # <<>>
    THEN MarkedContent(h)
    ELSE NewStyleContent(h)

\* lines 108-120
ExtractCriticalCss(h) ==
    IF HasMarkedMatch(h) THEN MarkedContent(h) ELSE NewStyleContent(h)

IsSpace(t) == t.k = "text" /\ t.v \in {" ", "\n"}

RECURSIVE TrimStart(_)
TrimStart(s) ==
    IF s # <<>> /\ IsSpace(s[1]) THEN TrimStart(Tail(s)) ELSE s

RECURSIVE TrimEnd(_)
TrimEnd(s) ==
    IF s # <<>> /\ IsSpace(Last(s)) THEN TrimEnd(Front(s)) ELSE s

\* String.prototype.trim
trim(s) == TrimEnd(TrimStart(s))

\* variant: the emptiness test without trim()
IsEmptyCssUntrimmed(css) == css = <<>>

\* line 122: !criticalCss || criticalCss.trim().length === 0
IsEmptyCss(css) == css = <<>> \/ Len(trim(css)) = 0

\* bytes of a token's text in UTF-8
TokenBytes(t) ==
    CASE t.k = "text" -> 1
      [] t.k = "style" -> IF t.a = "" THEN 7 ELSE 17
      [] t.k = "/style" -> 8
      [] t.k = "/head" -> 7
      [] t.k = "comment" -> 35
      [] OTHER -> 12

RECURSIVE byteLength(_)
byteLength(s) == IF s = <<>> THEN 0 ELSE TokenBytes(s[1]) + byteLength(Tail(s))

\* line 134: (bytes / 1024).toFixed(2), as a number of hundredths of a KB
sizeKb(css) == (byteLength(css) * 100 + 512) \div 1024

(***************************************************************************)
(* Pages, URLs, output paths, errors                                       *)
(***************************************************************************)
Page(uri, template) == [uri |-> uri, template |-> template]

PageSpecs ==
    {Page("/", <<"index">>), Page("/about", <<"about", "index">>),
     Page("/news", <<"index">>)}

PageLists(n) == UNION {[1..m -> PageSpecs] : m \in 0..n}

\* line 85: `${baseUrl}${page.uri}`
Url(page) == [base |-> baseUrl, uri |-> page.uri]

\* line 86: `${page.template}_critical.min.css`
outputFilename(page) ==
    [n \in 1..Len(page.template) |->
        IF n = Len(page.template)
        THEN Seg(page.template[n], "_critical.min.css")
        ELSE Dir(page.template[n])]

\* line 87: join(outputDir, outputFilename)
outputPath(page) == join(outputDir, outputFilename(page))

\* line 6: what await fetch(url) settles with
Resolved(status, statusText) ==
    [kind |-> "response", status |-> status, statusText |-> statusText]

Rejected(error) == [kind |-> "rejected", error |-> error]

Responses ==
    {Resolved(200, "OK"), Resolved(404, "Not Found"),
     Resolved(500, "Internal Server Error")}

\* response.ok (line 7): the status is in the range 200-299
Ok(r) == r.status >= 200 /\ r.status <= 299

HttpFailures == {r \in Responses : ~Ok(r)}

\* variant: the error message names the URL only
FetchErrorNoStatus(url, r) ==
    [msg |-> "Failed to fetch", url |-> url, status |-> 0, statusText |-> ""]

\* line 8: `Failed to fetch ${url}: ${response.status} ${response.statusText}`
FetchError(url, r) ==
    [msg |-> "Failed to fetch", url |-> url, status |-> r.status,
     statusText |-> r.statusText]

NetworkError == [msg |-> "fetch failed"]

EngineError == [msg |-> "beasties.process rejected"]

MkdirError == [msg |-> "EACCES: permission denied, mkdir"]

WriteError == [msg |-> "ENOSPC: no space left on device, write"]

NoCssExtracted == [msg |-> "No critical CSS extracted"]

\* documents the site answers with
FetchDocs ==
    {<<Tag("head"), StyleOpen("lower", ""), Text("x"), StyleClose("lower"),
       Link("lower", "stylesheet", "dq", <<Dir("dist"), Seg("old", "css")>>),
       HeadClose("lower"), Tag("h1")>>,
     <<Tag("h1")>>}

\* documents the extraction engine answers with
ProcessedDocs ==
    {<<Tag("head"), StyleOpen("lower", "data-href"), Text(" "), Text("x"), Text("\n"),
       StyleClose("lower"), HeadClose("lower"), Tag("h1")>>,
     <<StyleOpen("lower", "data-href"), Text(" "), StyleClose("lower")>>,
     <<Placeholder, StyleOpen("lower", ""), Text("x"), Text("y"), StyleClose("lower")>>,
     <<Placeholder, Tag("h1")>>}

OldCss == <<Text("o")>>

\* the output an earlier run left behind
EarlierOutput == [p \in {outputPath(Page("/", <<"index">>))} |-> OldCss]

InitialDirs(f) ==
    Prefixes(projectRoot \o <<Dir("web"), Dir("dist")>>)
        \cup UNION {Prefixes(dirname(p)) : p \in DOMAIN f}

\* variant: the file opened for appending (flag 'a')
WriteToAppend(f, path, data) ==
    [p \in DOMAIN f \cup {path} |->
        IF p = path
        THEN (IF path \in DOMAIN f THEN f[path] \o data ELSE data)
        ELSE f[p]]

\* variant: an existing file is kept (flag 'wx' with the EEXIST swallowed)
WriteToKeepExisting(f, path, data) ==
    [p \in DOMAIN f \cup {path} |-> IF p \in DOMAIN f THEN f[p] ELSE data]

\* writeFile(path, data): create or replace
WriteTo(f, path, data) ==
    [p \in DOMAIN f \cup {path} |-> IF p = path THEN data ELSE f[p]]

\* mkdir(path, {recursive: true})
MkdirP(d, path) == d \cup Prefixes(path)

(***************************************************************************)
(* generateCriticalCss (lines 65-156)                                      *)
(***************************************************************************)
\* a fresh build output with every manifest and directory shape, at most one
\* page
RichInit ==
    /\ manifest \in Manifests
    /\ assets \in AssetDirs
    /\ pages \in PageLists(1)
    /\ files = <<>>

\* a built project that an earlier run has left its output in, up to MaxPages
\* pages
LongInit ==
    /\ manifest = [kind |-> "object",
                   entries |-> [e \in {appEntry} |-> Entry(TRUE, <<AppCss>>)]]
    /\ assets = [exists |-> TRUE, list |-> <<Seg("main", "js"), Seg("fallback", "css")>>]
    /\ pages \in PageLists(MaxPages)
    /\ files = EarlierOutput

\* defaults.publicDir, defaults.publicPath (defaults.mjs lines 18, 21)
DefaultConfig ==
    /\ publicDir = <<Dir("web")>>
    /\ publicPath = <<>>

\* nothing of the run has happened yet
Fresh ==
    /\ files0 = files
    /\ pageStart = None
    /\ dirs = InitialDirs(files)
    /\ cssInfo = None
    /\ beasties = None
    /\ i = 1
    /\ results = <<>>
    /\ rawHtml = <<>>
    /\ html = <<>>
    /\ processedHtml = <<>>
    /\ criticalCss = <<>>
    /\ thrown = None
    /\ warnings = <<>>
    /\ fetched = <<>>
    /\ responses = <<>>
    /\ summary = None
    /\ reads = <<>>
    /\ engineCalls = <<>>
    /\ exit = None

\* generateCriticalCss is entered (line 65)
Entered == Fresh /\ pc = "start"

\* one run, its answers not fixed in advance
SingleRun ==
    /\ oracle = <<>>
    /\ run = 1
    /\ prev = None

Init ==
    /\ RichInit \/ LongInit
    /\ DefaultConfig
    /\ Entered
    /\ SingleRun

env == <<pages, manifest, assets, files0, publicDir, publicPath, oracle, run, prev, exit>>

\* lines 76-80: new Beasties({ path: resolve(projectRoot, publicDir), publicPath, ... })
NewBeasties == [path |-> join(projectRoot, publicDir), publicPath |-> publicPath]

locals == <<rawHtml, html, processedHtml, criticalCss>>

\* line 70: await mkdir(outputDir, { recursive: true })
MkdirOutputDir ==
    /\ pc = "start"
    /\ \/ /\ dirs' = MkdirP(dirs, outputDir)
          /\ pc' = "readManifest"
          /\ UNCHANGED thrown
       \/ /\ thrown' = MkdirError
          /\ pc' = "raised"
          /\ UNCHANGED dirs
    /\ UNCHANGED <<env, reads, engineCalls, beasties, locals, cssInfo, i, results, files, pageStart, warnings, fetched, responses, summary>>

\* variant: JSON.parse called outside the try block
ReadManifestParseOutsideTry ==
    /\ pc = "readManifest"
    /\ IF manifest.kind = "malformed"
       THEN /\ thrown' = [msg |-> "Unexpected token in JSON"]
            /\ pc' = "raised"
            /\ UNCHANGED <<cssInfo, beasties, warnings>>
       ELSE /\ UNCHANGED thrown
            /\ IF ManifestUsable(manifest, appEntry)
               THEN /\ cssInfo' = ManifestInfo(manifest, appEntry)
                    /\ beasties' = NewBeasties
                    /\ pc' = "loop"
                    /\ UNCHANGED warnings
               ELSE /\ warnings' = IF ManifestThrows(manifest)
                                   THEN Append(warnings, ManifestWarning)
                                   ELSE warnings
                    /\ pc' = "readdir"
                    /\ UNCHANGED <<cssInfo, beasties>>
    /\ reads' = Append(reads, "manifest")
    /\ UNCHANGED <<env, engineCalls, locals, i, results, dirs, files, pageStart, fetched, responses, summary>>

\* lines 17-29: the manifest step of getBuiltCssInfo
ReadManifest ==
    /\ pc = "readManifest"
    /\ reads' = Append(reads, "manifest")
    /\ IF ManifestUsable(manifest, appEntry)
       THEN /\ cssInfo' = ManifestInfo(manifest, appEntry)
            /\ beasties' = NewBeasties
            /\ pc' = "loop"
            /\ UNCHANGED warnings
       ELSE /\ warnings' = IF ManifestThrows(manifest)
                           THEN Append(warnings, ManifestWarning)
                           ELSE warnings
            /\ pc' = "readdir"
            /\ UNCHANGED <<cssInfo, beasties>>
    /\ UNCHANGED <<env, engineCalls, locals, i, results, thrown, dirs, files, pageStart, fetched, responses,
                   summary>>

\* lines 31-47: the fallback step of getBuiltCssInfo
ReadAssetsDir ==
    /\ pc = "readdir"
    /\ reads' = Append(reads, "assets")
    /\ IF FallbackUsable(assets)
       THEN /\ cssInfo' = FallbackInfo(assets)
            /\ beasties' = NewBeasties
            /\ pc' = "loop"
            /\ UNCHANGED thrown
       ELSE /\ thrown' = NoCssError
            /\ pc' = "raised"
            /\ UNCHANGED <<cssInfo, beasties>>
    /\ UNCHANGED <<env, engineCalls, locals, i, results, dirs, files, pageStart, warnings, fetched, responses,
                   summary>>

Success(page, size) == [page |-> page, success |-> TRUE, size |-> size]

\* variant: a failure result that also carries a size
FailureWithSize(page, error) ==
    [page |-> page, success |-> FALSE, error |-> error, size |-> 0]

Failure(page, error) == [page |-> page, success |-> FALSE, error |-> error]

NoLocals ==
    /\ rawHtml' = <<>>
    /\ html' = <<>>
    /\ processedHtml' = <<>>
    /\ criticalCss' = <<>>

\* lines 84-90: the for-of loop takes the next page
NextPage ==
    /\ pc = "loop"
    /\ i <= Len(pages)
    /\ pc' = "fetch"
    /\ pageStart' = [dirs |-> dirs, files |-> files]
    /\ UNCHANGED <<env, reads, engineCalls, beasties, locals, cssInfo, i, results, thrown, dirs,
                   files, warnings, fetched, responses, summary>>

\* variant: the request for the next page is started together with this one
FetchWithPrefetch ==
    /\ pc = "fetch"
    /\ fetched' = fetched \o <<Url(pages[i])>>
                    \o (IF i < Len(pages) THEN <<Url(pages[i + 1])>> ELSE <<>>)
    /\ \/ \E r \in Responses :
            /\ responses' = Append(responses, r)
            /\ IF Ok(r)
               THEN /\ \E d \in FetchDocs :
                         /\ rawHtml' = d
                         /\ html' = d
                    /\ pc' = "sanitize"
                    /\ UNCHANGED thrown
               ELSE /\ thrown' = FetchError(Url(pages[i]), r)
                    /\ pc' = "catch"
                    /\ UNCHANGED <<rawHtml, html>>
       \/ /\ responses' = Append(responses, Rejected(NetworkError))
          /\ thrown' = NetworkError
          /\ pc' = "catch"
          /\ UNCHANGED <<rawHtml, html>>
    /\ UNCHANGED <<env, reads, engineCalls, beasties, processedHtml, criticalCss, cssInfo, i,
                   results, dirs, files, pageStart, warnings, summary>>

\* line 92 and fetchHtml (lines 5-11)
Fetch ==
    /\ pc = "fetch"
    /\ fetched' = Append(fetched, Url(pages[i]))
    /\ \/ \E r \in Responses :
            /\ responses' = Append(responses, r)
            /\ IF Ok(r)
               THEN /\ \E d \in FetchDocs :
                         /\ rawHtml' = d
                         /\ html' = d
                    /\ pc' = "sanitize"
                    /\ UNCHANGED thrown
               ELSE /\ thrown' = FetchError(Url(pages[i]), r)
                    /\ pc' = "catch"
                    /\ UNCHANGED <<rawHtml, html>>
       \/ /\ responses' = Append(responses, Rejected(NetworkError))
          /\ thrown' = NetworkError
          /\ pc' = "catch"
          /\ UNCHANGED <<rawHtml, html>>
    /\ UNCHANGED <<env, reads, engineCalls, beasties, processedHtml, criticalCss, cssInfo, i, results, dirs, files, pageStart,
                   warnings, summary>>

\* variant: the asset located again for each page (getBuiltCssInfo inside
\* the loop)
SanitizeLocatesAgain ==
    /\ pc = "sanitize"
    /\ reads' = Append(reads, "manifest")
    /\ html' = SanitizeHtml(html, cssInfo.href)
    /\ pc' = "process"
    /\ UNCHANGED <<env, engineCalls, beasties, rawHtml, processedHtml, criticalCss, cssInfo, i,
                   results, thrown, dirs, files, pageStart, warnings, fetched, responses, summary>>

\* lines 94-103
Sanitize ==
    /\ pc = "sanitize"
    /\ html' = SanitizeHtml(html, cssInfo.href)
    /\ pc' = "process"
    /\ UNCHANGED <<env, reads, engineCalls, beasties, rawHtml, processedHtml, criticalCss, cssInfo, i, results, thrown,
                   dirs, files, pageStart, warnings, fetched, responses, summary>>

\* variant: beasties.process awaited outside the try block
ProcessOutsideTry ==
    /\ pc = "process"
    /\ engineCalls' = Append(engineCalls, i)
    /\ \/ \E d \in ProcessedDocs :
            /\ processedHtml' = d
            /\ pc' = "parse"
            /\ UNCHANGED thrown
       \/ /\ thrown' = EngineError
          /\ pc' = "raised"
          /\ UNCHANGED processedHtml
    /\ UNCHANGED <<env, reads, beasties, rawHtml, html, criticalCss, cssInfo, i, results, dirs, files, pageStart,
                   warnings, fetched, responses, summary>>

\* line 105: await beasties.process(html)
Process ==
    /\ pc = "process"
    /\ engineCalls' = Append(engineCalls, i)
    /\ \/ \E d \in ProcessedDocs :
            /\ processedHtml' = d
            /\ pc' = "parse"
            /\ UNCHANGED thrown
       \/ /\ thrown' = EngineError
          /\ pc' = "catch"
          /\ UNCHANGED processedHtml
    /\ UNCHANGED <<env, reads, beasties, rawHtml, html, criticalCss, cssInfo, i, results, dirs, files, pageStart,
                   warnings, fetched, responses, summary>>

\* lines 107-120
ParseOutput ==
    /\ pc = "parse"
    /\ criticalCss' = ExtractCriticalCss(processedHtml)
    /\ pc' = "check"
    /\ UNCHANGED <<env, reads, engineCalls, beasties, rawHtml, html, processedHtml, cssInfo, i, results, thrown, dirs,
                   files, pageStart, warnings, fetched, responses, summary>>

NoCssWarnings == <<"Warning: No critical CSS extracted",
                   "Beasties may not have found matching selectors in the HTML">>

\* variant: line 129 (criticalCss = criticalCss.trim()) left out
CheckEmptyNoTrim ==
    /\ pc = "check"
    /\ IF IsEmptyCss(criticalCss)
       THEN /\ warnings' = warnings \o NoCssWarnings
            /\ results' = Append(results, Failure(pages[i], NoCssExtracted))
            /\ i' = i + 1
            /\ pc' = "loop"
            /\ NoLocals
       ELSE /\ pc' = "mkdir"
            /\ UNCHANGED <<rawHtml, html, processedHtml, criticalCss, warnings, results, i>>
    /\ UNCHANGED <<env, reads, engineCalls, beasties, cssInfo, thrown, dirs, files, pageStart, fetched, responses, summary>>

\* variant: the continue on line 126 left out
CheckEmptyNoContinue ==
    /\ pc = "check"
    /\ IF IsEmptyCss(criticalCss)
       THEN /\ warnings' = warnings \o NoCssWarnings
            /\ results' = Append(results, Failure(pages[i], NoCssExtracted))
       ELSE UNCHANGED <<warnings, results>>
    /\ criticalCss' = trim(criticalCss)
    /\ pc' = "mkdir"
    /\ UNCHANGED <<env, reads, engineCalls, beasties, rawHtml, html, processedHtml, cssInfo, i,
                   thrown, dirs, files, pageStart, fetched, responses, summary>>

\* lines 122-129
CheckEmpty ==
    /\ pc = "check"
    /\ IF IsEmptyCss(criticalCss)
       THEN /\ warnings' = warnings \o NoCssWarnings
            /\ results' = Append(results, Failure(pages[i], NoCssExtracted))
            /\ i' = i + 1
            /\ pc' = "loop"
            /\ NoLocals
       ELSE /\ criticalCss' = trim(criticalCss)
            /\ pc' = "mkdir"
            /\ UNCHANGED <<rawHtml, html, processedHtml, warnings, results, i>>
    /\ UNCHANGED <<env, reads, engineCalls, beasties, cssInfo, thrown, dirs, files, pageStart, fetched, responses, summary>>

\* line 131: await mkdir(dirname(outputPath), { recursive: true })
MkdirPage ==
    /\ pc = "mkdir"
    /\ \/ /\ dirs' = MkdirP(dirs, dirname(outputPath(pages[i])))
          /\ pc' = "write"
          /\ UNCHANGED thrown
       \/ /\ thrown' = MkdirError
          /\ pc' = "catch"
          /\ UNCHANGED dirs
    /\ UNCHANGED <<env, reads, engineCalls, beasties, locals, cssInfo, i, results, files, pageStart, warnings, fetched, responses, summary>>

\* line 132: await writeFile(outputPath, criticalCss, 'utf-8')
\* a rejected write leaves the file as it was, or created/truncated and empty
WriteFile ==
    /\ pc = "write"
    /\ \/ /\ files' = WriteTo(files, outputPath(pages[i]), criticalCss)
          /\ pc' = "record"
          /\ UNCHANGED thrown
       \/ /\ thrown' = WriteError
          /\ pc' = "catch"
          /\ \/ UNCHANGED files
             \/ files' = WriteTo(files, outputPath(pages[i]), <<>>)
    /\ UNCHANGED <<env, reads, engineCalls, beasties, locals, cssInfo, i, results, dirs,
                   pageStart, warnings, fetched, responses, summary>>

\* variant: results.unshift(...) in place of results.push(...)
RecordSuccessUnshift ==
    /\ pc = "record"
    /\ results' = <<Success(pages[i], sizeKb(criticalCss))>> \o results
    /\ i' = i + 1
    /\ pc' = "loop"
    /\ NoLocals
    /\ UNCHANGED <<env, reads, engineCalls, beasties, cssInfo, thrown, dirs, files, pageStart, warnings, fetched, responses, summary>>

\* lines 134-137
RecordSuccess ==
    /\ pc = "record"
    /\ results' = Append(results, Success(pages[i], sizeKb(criticalCss)))
    /\ i' = i + 1
    /\ pc' = "loop"
    /\ NoLocals
    /\ UNCHANGED <<env, reads, engineCalls, beasties, cssInfo, thrown, dirs, files, pageStart, warnings, fetched, responses, summary>>

\* variant: the catch block rethrows
CatchRethrows ==
    /\ pc = "catch"
    /\ pc' = "raised"
    /\ UNCHANGED <<env, reads, engineCalls, beasties, locals, cssInfo, i, results, thrown, dirs, files, pageStart, warnings,
                   fetched, responses, summary>>

\* variant: a page whose request was rejected is tried again
CatchRetriesFetch ==
    /\ pc = "catch"
    /\ IF thrown = NetworkError /\ Len(fetched) < i + 1
       THEN /\ pc' = "fetch"
            /\ thrown' = None
            /\ UNCHANGED <<results, i, rawHtml, html, processedHtml, criticalCss>>
       ELSE /\ results' = Append(results, Failure(pages[i], thrown))
            /\ thrown' = None
            /\ i' = i + 1
            /\ pc' = "loop"
            /\ NoLocals
    /\ UNCHANGED <<env, reads, engineCalls, beasties, cssInfo, dirs, files, pageStart, warnings, fetched,
                   responses, summary>>

\* variant: the catch block removes the page's output file (unlink)
CatchRemovesOutput ==
    /\ pc = "catch"
    /\ results' = Append(results, Failure(pages[i], thrown))
    /\ files' = [p \in DOMAIN files \ {outputPath(pages[i])} |-> files[p]]
    /\ thrown' = None
    /\ i' = i + 1
    /\ pc' = "loop"
    /\ NoLocals
    /\ UNCHANGED <<env, reads, engineCalls, beasties, cssInfo, dirs, pageStart, warnings, fetched,
                   responses, summary>>

\* lines 138-141
Catch ==
    /\ pc = "catch"
    /\ results' = Append(results, Failure(pages[i], thrown))
    /\ thrown' = None
    /\ i' = i + 1
    /\ pc' = "loop"
    /\ NoLocals
    /\ UNCHANGED <<env, reads, engineCalls, beasties, cssInfo, dirs, files, pageStart, warnings, fetched, responses, summary>>

\* variant: failed counted over all results
RunSummaryFailedAll(rs) ==
    [results |-> rs,
     successful |-> Len(SelectSeq(rs, LAMBDA r : r.success)),
     failed |-> Len(rs)]

IsSuccess(r) == r.success

IsFailed(r) == ~r.success

\* lines 144-155
RunSummary(rs) ==
    [results |-> rs,
     successful |-> Len(SelectSeq(rs, IsSuccess)),
     failed |-> Len(SelectSeq(rs, IsFailed))]

Return ==
    /\ pc = "loop"
    /\ i > Len(pages)
    /\ summary' = RunSummary(results)
    /\ pc' = "returned"
    /\ UNCHANGED <<env, reads, engineCalls, beasties, locals, cssInfo, i, results, thrown, dirs, files, pageStart, warnings,
                   fetched, responses>>

Next ==
    \/ MkdirOutputDir
    \/ ReadManifest
    \/ ReadAssetsDir
    \/ NextPage
    \/ Fetch
    \/ Sanitize
    \/ Process
    \/ ParseOutput
    \/ CheckEmpty
    \/ MkdirPage
    \/ WriteFile
    \/ RecordSuccess
    \/ Catch
    \/ Return

Spec == Init /\ [][Next]_vars

\* every pending I/O step eventually resolves or rejects, and the event loop
\* runs the continuation
FairSpec == Spec /\ WF_vars(Next)

(***************************************************************************)
(* The command-line program (bin/critical-css-craftcms.mjs): it loads and  *)
(* checks the configuration, calls generateCriticalCss and exits.          *)
(***************************************************************************)
\* what stops the program before generateCriticalCss is called
\* (lines 18-90), other than an empty pages array
ConfigProblems ==
    {"Error: Config file not found",
     "Error: Failed to load critical-css.config.mjs",
     "Error: critical-css.config.mjs must have a default export that is an object.",
     "Error: pages[0] is missing a \"uri\" string.",
     "Error: pages[0] is missing a \"template\" string.",
     "Error: CRITICAL_URL environment variable is required."}

PagesProblem == "Error: \"pages\" must be a non-empty array in critical-css.config.mjs."

ExitWith(code) == [code |-> code]

\* lines 9-109: load the configuration, validate it, merge it with defaults
CliLoadConfig ==
    /\ pc = "cli"
    /\ \/ \E problem \in ConfigProblems :
            /\ warnings' = Append(warnings, problem)
            /\ exit' = ExitWith(1)
            /\ pc' = "exited"
       \/ /\ pages = <<>>
          /\ warnings' = Append(warnings, PagesProblem)
          /\ exit' = ExitWith(1)
          /\ pc' = "exited"
       \/ /\ pages # <<>>
          /\ pc' = "start"
          /\ UNCHANGED <<warnings, exit>>
    /\ UNCHANGED <<pages, manifest, assets, files0, publicDir, publicPath, oracle, run, prev,
                   reads, engineCalls, beasties, locals, cssInfo, i, results, thrown, dirs,
                   files, pageStart, fetched, responses, summary>>

\* variant: the exit status does not look at failed
CliExitIgnoresFailed ==
    /\ pc \in {"returned", "raised"}
    /\ IF pc = "returned"
       THEN /\ exit' = ExitWith(0)
            /\ UNCHANGED warnings
       ELSE /\ warnings' = Append(warnings, "Fatal error:")
            /\ exit' = ExitWith(1)
    /\ pc' = "exited"
    /\ UNCHANGED <<pages, manifest, assets, files0, publicDir, publicPath, oracle, run, prev,
                   reads, engineCalls, beasties, locals, cssInfo, i, results, thrown, dirs,
                   files, pageStart, fetched, responses, summary>>

\* lines 113-119
CliExit ==
    /\ pc \in {"returned", "raised"}
    /\ IF pc = "returned"
       THEN /\ exit' = ExitWith(IF summary.failed > 0 THEN 1 ELSE 0)
            /\ UNCHANGED warnings
       ELSE /\ warnings' = Append(warnings, "Fatal error:")
            /\ exit' = ExitWith(1)
    /\ pc' = "exited"
    /\ UNCHANGED <<pages, manifest, assets, files0, publicDir, publicPath, oracle, run, prev,
                   reads, engineCalls, beasties, locals, cssInfo, i, results, thrown, dirs,
                   files, pageStart, fetched, responses, summary>>

CliInit ==
    /\ RichInit \/ LongInit
    /\ DefaultConfig
    /\ Fresh
    /\ pc = "cli"
    /\ SingleRun

CliNext == CliLoadConfig \/ Next \/ CliExit

CliSpec == CliInit /\ [][CliNext]_vars

(***************************************************************************)
(* The pipeline under every configuration of publicDir and publicPath.     *)
(***************************************************************************)
\* config.publicDir: 'web' (the default), 'web/dist', 'public'
PublicDirs == {<<Dir("web")>>, <<Dir("web"), Dir("dist")>>, <<Dir("public")>>}

\* config.publicPath: '/' (the default), '/dist/'
PublicPaths == {<<>>, <<Dir("dist")>>}

IsPrefixOf(p, s) == Len(p) <= Len(s) /\ SubSeq(s, 1, Len(p)) = p

\* the file a root-relative href names for an engine built with the given
\* path and publicPath: publicPath is the URL prefix that maps to path
ResolveHref(href, path, prefix) ==
    IF IsPrefixOf(prefix, href)
    THEN join(path, SubSeq(href, Len(prefix) + 1, Len(href)))
    ELSE join(path, href)

ConfigInit ==
    /\ RichInit
    /\ publicDir \in PublicDirs
    /\ publicPath \in PublicPaths
    /\ Entered
    /\ SingleRun

ConfigSpec == ConfigInit /\ [][Next]_vars

(***************************************************************************)
(* Two runs of generateCriticalCss, one after the other, on the same       *)
(* project: the disk keeps what the first run left, and the site, the      *)
(* engine and the disk answer the second run as they answered the first    *)
(* (oracle).                                                               *)
(***************************************************************************)
\* what happens to one page: the response to its request, the document
\* served, what beasties.process settles with, and how mkdir and writeFile
\* end ("ok", "unchanged": rejected, file as it was, "truncated": rejected,
\* file left empty)
Outcome(response, doc, engineOk, out, mkdirOk, write) ==
    [response |-> response, doc |-> doc, engineOk |-> engineOk, out |-> out,
     mkdirOk |-> mkdirOk, write |-> write]

\* the outcomes that differ in what the run sees of them
PageOutcomes ==
    {Outcome(r, <<>>, FALSE, <<>>, FALSE, "none") :
        r \in HttpFailures \cup {Rejected(NetworkError)}}
    \cup {Outcome(Resolved(200, "OK"), d, FALSE, <<>>, FALSE, "none") : d \in FetchDocs}
    \cup {Outcome(Resolved(200, "OK"), d, TRUE, e, FALSE, "none") :
            d \in FetchDocs, e \in ProcessedDocs}
    \cup {Outcome(Resolved(200, "OK"), d, TRUE, e, TRUE, w) :
            d \in FetchDocs,
            e \in {x \in ProcessedDocs : ~IsEmptyCss(ExtractCriticalCss(x))},
            w \in {"ok", "unchanged", "truncated"}}

TwicePageLists ==
    {<<Page("/", <<"index">>)>>,
     <<Page("/", <<"index">>), Page("/news", <<"index">>)>>,
     <<Page("/about", <<"about", "index">>), Page("/", <<"index">>)>>}

TwiceInit ==
    /\ \/ /\ manifest = [kind |-> "object",
                         entries |-> [e \in {appEntry} |-> Entry(TRUE, <<AppCss>>)]]
          /\ assets = [exists |-> TRUE, list |-> <<Seg("fallback", "css")>>]
          /\ pages \in TwicePageLists
       \/ /\ manifest = [kind |-> "missing"]
          /\ assets = [exists |-> TRUE, list |-> <<Seg("main", "js")>>]
          /\ pages = <<Page("/", <<"index">>)>>
    /\ files \in {<<>>, EarlierOutput}
    /\ DefaultConfig
    /\ Entered
    /\ oracle \in [outputDirOk : BOOLEAN, page : [1..Len(pages) -> PageOutcomes]]
    /\ run = 1
    /\ prev = None

\* the step just taken is the one the oracle has for it
FollowsOracle ==
    /\ pc = "start" => (pc' = "readManifest" <=> oracle.outputDirOk)
    /\ pc = "fetch" =>
         /\ responses' = Append(responses, oracle.page[i].response)
         /\ pc' = "sanitize" => rawHtml' = oracle.page[i].doc
    /\ pc = "process" =>
         /\ pc' = "parse" <=> oracle.page[i].engineOk
         /\ pc' = "parse" => processedHtml' = oracle.page[i].out
    /\ pc = "mkdir" => (pc' = "write" <=> oracle.page[i].mkdirOk)
    /\ pc = "write" =>
         /\ pc' = "record" <=> oracle.page[i].write = "ok"
         /\ oracle.page[i].write = "unchanged" => files' = files
         /\ oracle.page[i].write = "truncated" =>
              files' = WriteTo(files, outputPath(pages[i]), <<>>)

\* the first run is over; the program is started again
Restart ==
    /\ run = 1
    /\ pc \in {"returned", "raised"}
    /\ prev' = [summary |-> summary, files |-> files]
    /\ run' = 2
    /\ files0' = files
    /\ pc' = "start"
    /\ cssInfo' = None
    /\ beasties' = None
    /\ i' = 1
    /\ results' = <<>>
    /\ NoLocals
    /\ thrown' = None
    /\ warnings' = <<>>
    /\ fetched' = <<>>
    /\ responses' = <<>>
    /\ summary' = None
    /\ reads' = <<>>
    /\ engineCalls' = <<>>
    /\ UNCHANGED <<pages, manifest, assets, publicDir, publicPath, oracle, exit, dirs, files, pageStart>>

TwiceNext == (Next /\ FollowsOracle) \/ Restart

TwiceSpec == TwiceInit /\ [][TwiceNext]_vars

(***************************************************************************)
(* The sanitizer on every document of at most MaxHtmlLen tokens: the run   *)
(* is at line 94, the fetch of its only page having resolved with html.    *)
(***************************************************************************)
OldHref == <<Dir("dist"), Seg("old", "css")>>
SanTokens ==
    {StyleOpen("lower", ""), StyleClose("lower"), StyleClose("upper"),
     Link("lower", "stylesheet", "dq", OldHref),
     Link("upper", "stylesheet", "sq", OldHref),
     Link("lower", "stylesheet", "none", OldHref),
     Link("lower", "icon", "dq", <<Seg("favicon", "ico")>>),
     HeadClose("lower"), HeadClose("upper"), Text("x")}

SanDocs == UNION {[1..n -> SanTokens] : n \in 0..MaxHtmlLen}

SanInit ==
    /\ pages = <<Page("/", <<"index">>)>>
    /\ manifest = [kind |-> "missing"]
    /\ assets = [exists |-> TRUE, list |-> <<Seg("fallback", "css")>>]
    /\ files = <<>>
    /\ files0 = <<>>
    /\ dirs = MkdirP(InitialDirs(files), outputDir)
    /\ pageStart = [dirs |-> dirs, files |-> files]
    /\ pc = "sanitize"
    /\ cssInfo = FallbackInfo(assets)
    /\ i = 1
    /\ results = <<>>
    /\ rawHtml \in SanDocs
    /\ html = rawHtml
    /\ processedHtml = <<>>
    /\ criticalCss = <<>>
    /\ thrown = None
    /\ warnings = <<ManifestWarning>>
    /\ fetched = <<Url(pages[1])>>
    /\ responses = <<Resolved(200, "OK")>>
    /\ summary = None
    /\ DefaultConfig
    /\ beasties = NewBeasties
    /\ reads = <<"manifest", "assets">>
    /\ engineCalls = <<>>
    /\ exit = None
    /\ SingleRun

SanNext == Sanitize

SanSpec == SanInit /\ [][SanNext]_vars

(***************************************************************************)
(* The output extractor on every engine output of at most MaxHtmlLen       *)
(* tokens: the run is at line 107, beasties.process having resolved for    *)
(* its only page.                                                          *)
(***************************************************************************)
ExtTokens ==
    {StyleOpen("lower", ""), StyleOpen("lower", "data-href"),
     StyleClose("lower"), StyleClose("upper"), Placeholder, Text("x"), Text("y")}

ExtDocs == UNION {[1..n -> ExtTokens] : n \in 0..MaxHtmlLen}

ExtInit ==
    /\ pages = <<Page("/", <<"index">>)>>
    /\ manifest = [kind |-> "missing"]
    /\ assets = [exists |-> TRUE, list |-> <<Seg("fallback", "css")>>]
    /\ files = <<>>
    /\ files0 = <<>>
    /\ dirs = MkdirP(InitialDirs(files), outputDir)
    /\ pageStart = [dirs |-> dirs, files |-> files]
    /\ pc = "parse"
    /\ cssInfo = FallbackInfo(assets)
    /\ i = 1
    /\ results = <<>>
    /\ rawHtml = <<HeadClose("lower"), Tag("h1")>>
    /\ html = SanitizeHtml(rawHtml, cssInfo.href)
    /\ processedHtml \in ExtDocs
    /\ criticalCss = <<>>
    /\ thrown = None
    /\ warnings = <<ManifestWarning>>
    /\ fetched = <<Url(pages[1])>>
    /\ responses = <<Resolved(200, "OK")>>
    /\ summary = None
    /\ DefaultConfig
    /\ beasties = NewBeasties
    /\ reads = <<"manifest", "assets">>
    /\ engineCalls = <<1>>
    /\ exit = None
    /\ SingleRun

ExtNext == ParseOutput

ExtSpec == ExtInit /\ [][ExtNext]_vars

(***************************************************************************)
(* Properties                                                              *)
(***************************************************************************)
PageErrors ==
    {FetchError(Url(p), r) : p \in PageSpecs, r \in HttpFailures}
        \cup {NetworkError, EngineError, MkdirError, WriteError}

\* C1: when generateCriticalCss returns, results has one entry per configured
\* page and results[k].page is pages[k] for every k.
C1_OrderPreserved ==
    pc = "returned" =>
        /\ Len(summary.results) = Len(pages)
        /\ \A k \in 1..Len(pages) : summary.results[k].page = pages[k]

C1_Witness ==
    /\ pc = "returned"
    /\ Len(pages) = 2
    /\ pages[1] # pages[2]
    /\ ~summary.results[1].success
    /\ summary.results[2].success

\* C2: once a page has failed (for whatever reason), every page is still
\* requested and the run eventually returns a RunSummary covering all pages.
C2_FailureNeverAborts ==
    (pc = "catch" \/ \E k \in 1..Len(results) : ~results[k].success)
        ~> /\ pc = "returned"
           /\ Len(summary.results) = Len(pages)
           /\ fetched = [k \in 1..Len(pages) |-> Url(pages[k])]

C2_Witness ==
    /\ pc = "returned"
    /\ Len(pages) = 2
    /\ summary.results[1] = Failure(pages[1], WriteError)
    /\ summary.results[2].success

\* C3: an error leaves generateCriticalCss only from the two steps before the
\* page loop; an error thrown in the loop is caught, and the catch records
\* Failure(page, message) and goes on with the loop.
C3_RaisesOnlyBeforeLoop ==
    [][/\ pc' = "raised" => pc \in {"start", "readdir"}
       /\ (thrown' # None /\ pc \notin {"start", "readdir"}) =>
            /\ pc' = "catch"
            /\ thrown' \in PageErrors
       /\ pc = "catch" =>
            /\ results' = Append(results, Failure(pages[i], thrown))
            /\ pc' = "loop"
            /\ i' = i + 1]_vars

C3_Witness ==
    /\ pc = "returned"
    /\ Len(pages) = 2
    /\ summary.results[1] = Failure(pages[1], EngineError)
    /\ summary.results[2] = Failure(pages[2], FetchError(Url(pages[2]), [status |-> 404, statusText |-> "Not Found"]))

\* the manifest is missing, unparsable, or has no non-empty css list under
\* the configured entry key
ManifestGivesNoEntry ==
    \/ manifest.kind \in {"missing", "malformed", "null"}
    \/ /\ manifest.kind = "object"
       /\ \/ appEntry \notin DOMAIN manifest.entries
          \/ ~manifest.entries[appEntry].hasCss
          \/ manifest.entries[appEntry].css = <<>>

\* indexes of the listing's names that end in .css
CssIndexes == {n \in 1..Len(assets.list) : assets.list[n].ext = "css"}

BeforeLoop == {"start", "readManifest", "readdir"}

\* C4: with no usable manifest entry and no .css file in the fallback
\* directory (or no such directory), the run never enters the page loop: it
\* fetches nothing, records nothing, writes nothing, the fallback step raises
\* the 'no CSS found' error, and the run ends raised.
C4_FatalBeforeAnyPage ==
    /\ []((ManifestGivesNoEntry /\ (~assets.exists \/ CssIndexes = {})) =>
            /\ pc \in BeforeLoop \cup {"raised"}
            /\ fetched = <<>>
            /\ results = <<>>
            /\ summary = None
            /\ files = files0)
    /\ [][(ManifestGivesNoEntry /\ (~assets.exists \/ CssIndexes = {})
            /\ pc = "readdir") =>
            (pc' = "raised"
             /\ thrown' = [msg |-> "No CSS files found in web/dist/. Run your Vite build first."])]_vars
    /\ (ManifestGivesNoEntry /\ (~assets.exists \/ CssIndexes = {}))
          ~> (pc = "raised")

C4_Witness ==
    /\ pc = "raised"
    /\ thrown = NoCssError
    /\ Len(pages) = 1
    /\ manifest.kind = "object"
    /\ appEntry \in DOMAIN manifest.entries
    /\ manifest.entries[appEntry] = Entry(TRUE, <<>>)
    /\ assets.exists
    /\ assets.list = <<Seg("SHOUT", "CSS"), Seg("main", "js")>>

FirstCssName ==
    assets.list[CHOOSE n \in CssIndexes : \A m \in CssIndexes : n <= m]

\* C5: with no usable manifest entry and at least one .css file in the
\* fallback directory, getBuiltCssInfo does not raise and returns the first
\* such file of the listing, as projectRoot/web/dist/assets/<file> and
\* /dist/assets/<file>.
C5_FallbackCorrect ==
    (/\ ManifestGivesNoEntry
     /\ assets.exists
     /\ CssIndexes # {}
     /\ pc \notin BeforeLoop
     /\ ~(pc = "raised" /\ thrown = MkdirError)) =>
        /\ pc # "raised"
        /\ cssInfo =
            [absolutePath |-> <<Dir("proj"), Dir("web"), Dir("dist"), Dir("assets"),
                                FirstCssName>>,
             href |-> <<Dir("dist"), Dir("assets"), FirstCssName>>]

C5_Witness ==
    /\ pc = "loop"
    /\ manifest.kind = "object"
    /\ appEntry \notin DOMAIN manifest.entries
    /\ assets.list = <<Seg("zeta", "css"), Seg("fallback", "css")>>
    /\ cssInfo.href = <<Dir("dist"), Dir("assets"), Seg("zeta", "css")>>

AllWhitespace(css) == \A n \in 1..Len(css) : css[n] \in {Text(" "), Text("\n")}

\* C6: when the extracted CSS is empty after trimming, the page is recorded as
\* {success: false, error: "No critical CSS extracted"}, nothing is thrown,
\* no directory or file is created or changed, the loop goes on with the next
\* page, and the run returns with every page requested.
C6_SoftFailure ==
    /\ [][(pc = "check" /\ AllWhitespace(criticalCss)) =>
            /\ results' = Append(results, [page |-> pages[i], success |-> FALSE,
                                           error |-> [msg |-> "No critical CSS extracted"]])
            /\ thrown' = None
            /\ files' = files
            /\ dirs' = dirs
            /\ pc' = "loop"
            /\ i' = i + 1]_vars
    /\ (pc = "check" /\ AllWhitespace(criticalCss))
          ~> (pc = "returned" /\ fetched = [k \in 1..Len(pages) |-> Url(pages[k])])

C6_Witness ==
    /\ pc = "returned"
    /\ Len(pages) = 2
    /\ summary.results[1] = Failure(pages[1], NoCssExtracted)
    /\ summary.results[2].success
    /\ outputPath(pages[1]) \notin DOMAIN files

\* C7: in every returned RunSummary, successful is the number of results with
\* success true, failed the number with success false, and they add up to
\* results.length.
C7_Partition ==
    pc = "returned" =>
        /\ summary.successful =
            Cardinality({k \in 1..Len(summary.results) : summary.results[k].success})
        /\ summary.failed =
            Cardinality({k \in 1..Len(summary.results) : ~summary.results[k].success})
        /\ summary.successful + summary.failed = Len(summary.results)

C7_Witness ==
    /\ pc = "returned"
    /\ summary.successful = 1
    /\ summary.failed = 1

ExpectedOutputPath(page) ==
    <<Dir("proj"), Dir("web"), Dir("dist"), Dir("criticalcss")>>
        \o [n \in 1..(Len(page.template) - 1) |-> Dir(page.template[n])]
        \o <<Seg(page.template[Len(page.template)], "_critical.min.css")>>

\* css is extracted with its leading and trailing whitespace removed
IsTrimOf(css, extracted) ==
    /\ css # <<>>
    /\ ~AllWhitespace(<<css[1]>>)
    /\ ~AllWhitespace(<<css[Len(css)]>>)
    /\ \E a \in 0..Len(extracted) :
        /\ a + Len(css) <= Len(extracted)
        /\ SubSeq(extracted, a + 1, a + Len(css)) = css
        /\ AllWhitespace(SubSeq(extracted, 1, a))
        /\ AllWhitespace(SubSeq(extracted, a + Len(css) + 1, Len(extracted)))

\* C8: when a result with success true is recorded, the file
\* outputDir/{template}_critical.min.css exists, its parent directories
\* exist, and it holds exactly the trimmed, non-empty critical CSS extracted
\* for that page.
C8_SuccessMeansFileWritten ==
    [][(results' # results /\ results'[Len(results')].success) =>
        LET path == ExpectedOutputPath(results'[Len(results')].page)
        IN  /\ results'[Len(results')].page = pages[i]
            /\ path \in DOMAIN files'
            /\ \A n \in 1..(Len(path) - 1) : SubSeq(path, 1, n) \in dirs'
            /\ IsTrimOf(files'[path], ExtractCriticalCss(processedHtml))]_vars

C8_Witness ==
    /\ pc = "returned"
    /\ pages = <<Page("/", <<"index">>), Page("/about", <<"about", "index">>)>>
    /\ summary.successful = 2
    /\ files0 # <<>>
    /\ files[ExpectedOutputPath(pages[1])] = <<Text("x")>>
    /\ files[ExpectedOutputPath(pages[2])] = <<Text("x"), Text("y")>>

\* positions of the links of h whose rel is the quoted word stylesheet
StylesheetLinkIndexes(h) ==
    {n \in 1..Len(h) :
        h[n].k = "link" /\ h[n].rel = "stylesheet" /\ h[n].q \in {"dq", "sq"}}

\* positions of the literal </head>
HeadCloseIndexes(h) == {n \in 1..Len(h) : h[n] = HeadClose("lower")}

NoStyleBlock(h) ==
    ~\E a \in 1..Len(h) : \E b \in (a + 1)..Len(h) :
        h[a].k = "style" /\ h[b].k = "/style"

AssetLink == Link("lower", "stylesheet", "dq", cssInfo.href)

IsOriginalToken(t) == t # AssetLink /\ t # Text("\n")

IsNotQuotedStylesheetLink(t) ==
    ~(t.k = "link" /\ t.rel = "stylesheet" /\ t.q \in {"dq", "sq"})

\* C9 as claimed: for fetched HTML with a closing head tag (not preceded by
\* any style opening tag), sanitizing leaves no style block and exactly one
\* stylesheet link, the link to the located asset, immediately before the
\* closing head tag.
C9_AsClaimed ==
    (/\ pc = "process"
     /\ \E n \in 1..Len(rawHtml) :
            /\ rawHtml[n].k = "/head"
            /\ \A m \in 1..n : rawHtml[m].k # "style") =>
        /\ NoStyleBlock(html)
        /\ \E n \in 1..Len(html) :
            /\ StylesheetLinkIndexes(html) = {n}
            /\ html[n] = AssetLink
            /\ n + 2 <= Len(html)
            /\ html[n + 2].k = "/head"

\* C9: sanitizing leaves no <style>...</style> block and no link whose rel is
\* the quoted word stylesheet other than the injected one; when the stripped
\* text contains the literal lower-case </head>, exactly one link to the
\* located asset stands (with a newline) immediately before its first
\* occurrence, and otherwise no link is inserted; what is neither a style
\* block nor such a link is kept in order.
C9_Sanitizer ==
    pc = "process" =>
        /\ NoStyleBlock(html)
        /\ IF HeadCloseIndexes(html) = {}
           THEN /\ StylesheetLinkIndexes(html) = {}
                /\ \A n \in 1..Len(html) : IsOriginalToken(html[n])
           ELSE LET first == CHOOSE n \in HeadCloseIndexes(html) :
                                \A m \in HeadCloseIndexes(html) : n <= m
                IN  /\ first >= 3
                    /\ StylesheetLinkIndexes(html) = {first - 2}
                    /\ html[first - 2] = AssetLink
                    /\ html[first - 1] = Text("\n")
        /\ (\A n \in 1..Len(rawHtml) : rawHtml[n].k # "style") =>
                SelectSeq(html, IsOriginalToken)
                    = SelectSeq(rawHtml, IsNotQuotedStylesheetLink)
        /\ HeadCloseIndexes(rawHtml) = {} => HeadCloseIndexes(html) = {}

C9_Witness ==
    /\ pc = "process"
    /\ rawHtml = <<StyleOpen("lower", ""), StyleClose("upper"),
                   Link("upper", "stylesheet", "sq", OldHref), HeadClose("lower")>>
    /\ html = <<Placeholder,
                Link("lower", "stylesheet", "dq",
                     <<Dir("dist"), Dir("assets"), Seg("fallback", "css")>>),
                Text("\n"), HeadClose("lower")>>

\* the manifest step fell through to the fallback step
TookFallback ==
    /\ pc \notin {"start", "readManifest"}
    /\ ~(pc = "raised" /\ thrown = MkdirError)
    /\ ManifestGivesNoEntry

WarnedAboutManifest ==
    \E n \in 1..Len(warnings) :
        warnings[n] = "Could not read Vite manifest, looking for CSS files directly"

ManifestNotReported ==
    /\ pc = "raised" => thrown = NoCssError
    /\ \A k \in 1..Len(results) :
        results[k].success \/ results[k].error \in PageErrors \cup {NoCssExtracted}

\* C10 as claimed: whenever the fallback path is taken because the manifest
\* is missing, unparsable or lacks the configured entry key, a warning is
\* logged, and the condition is neither raised nor recorded in a PageResult.
C10_AsClaimed ==
    (/\ TookFallback
     /\ \/ manifest.kind \in {"missing", "malformed"}
        \/ manifest.kind = "object" /\ appEntry \notin DOMAIN manifest.entries) =>
        /\ WarnedAboutManifest
        /\ ManifestNotReported

\* C10: when the fallback path is taken, the manifest condition is neither
\* raised nor recorded in a PageResult; the warning is logged exactly when
\* reading the manifest threw (file missing, malformed JSON, or the JSON
\* value null), and not when the manifest is an object without the entry key
\* or without a non-empty css list.
C10_ManifestWarning ==
    TookFallback =>
        /\ WarnedAboutManifest <=> manifest.kind \in {"missing", "malformed", "null"}
        /\ ManifestNotReported

C10_Witness ==
    /\ pc = "returned"
    /\ manifest.kind = "malformed"
    /\ warnings[1] = ManifestWarning
    /\ Len(pages) = 1
    /\ summary.results[1].success

(***************************************************************************)
(* C11                                                                     *)
(***************************************************************************)
HasSizeOnly(r) == "size" \in DOMAIN r /\ "error" \notin DOMAIN r

HasErrorOnly(r) == "error" \in DOMAIN r /\ "size" \notin DOMAIN r

\* the step appends one result, for the page in progress, and ends that page
AppendsResultOfCurrentPage ==
    /\ pc \in {"check", "record", "catch"}
    /\ Len(results) = i - 1
    /\ Len(results') = Len(results) + 1
    /\ SubSeq(results', 1, Len(results)) = results
    /\ results'[Len(results')].page = pages[i]
    /\ i' = i + 1
    /\ pc' = "loop"

\* C11: every result carries size iff success is true and error iff success
\* is false; a result is appended once, by the step that ends its page, and
\* the results already appended never change
C11_ResultShape ==
    /\ [](\A k \in 1..Len(results) :
            IF results[k].success
            THEN HasSizeOnly(results[k])
            ELSE HasErrorOnly(results[k]))
    /\ [](pc \in {"loop", "returned"} /\ cssInfo # None => Len(results) = i - 1)
    /\ [][results' # results => AppendsResultOfCurrentPage]_vars

C11_Witness ==
    /\ pc = "returned"
    /\ Len(results) = 2
    /\ results[1].success /\ HasSizeOnly(results[1])
    /\ ~results[2].success /\ HasErrorOnly(results[2])

(***************************************************************************)
(* C12                                                                     *)
(***************************************************************************)
\* the page whose result is the next to be recorded
OpenPage == Len(results) + 1

\* a request has gone out for the open page and its result is not recorded
PageInProgress == Len(fetched) = Len(results) + 1

\* the files that differ between two file systems
ChangedPaths(f, g) ==
    {p \in DOMAIN f \cup DOMAIN g :
        p \notin DOMAIN f \/ p \notin DOMAIN g \/ f[p] # g[p]}

\* C12: pages are processed one at a time in configured order: the fetch of
\* page N+1 begins only when the results of pages 1..N are recorded, and
\* every extraction call, every write and every piece of page data in hand
\* belongs to the one page whose result is still open
C12_OneAtATime ==
    /\ [](Len(fetched) - Len(results) \in {0, 1})
    /\ [](rawHtml # <<>> \/ html # <<>> \/ processedHtml # <<>> \/ criticalCss # <<>>
            => PageInProgress)
    /\ [][fetched' # fetched =>
            /\ Len(fetched) = Len(results)
            /\ OpenPage <= Len(pages)
            /\ fetched' = Append(fetched, Url(pages[OpenPage]))
            /\ results' = results]_vars
    /\ [][engineCalls' # engineCalls =>
            /\ PageInProgress
            /\ engineCalls' = Append(engineCalls, OpenPage)
            /\ results' = results]_vars
    /\ [][files' # files =>
            /\ PageInProgress
            /\ ChangedPaths(files, files') = {outputPath(pages[OpenPage])}
            /\ results' = results]_vars

\* the second page has been fetched, extracted and written after the first
C12_Witness ==
    /\ Len(pages) = 2
    /\ pc = "record"
    /\ Len(results) = 1
    /\ fetched = <<Url(pages[1]), Url(pages[2])>>
    /\ engineCalls = <<1, 2>>
    /\ results[1].success

(***************************************************************************)
(* C13                                                                     *)
(***************************************************************************)
PageStates ==
    <<"Pending", "Fetching", "Sanitizing", "Extracting", "ParsingOutput", "Writing">>

\* the state of the page the loop is at
PageState ==
    CASE pc = "loop" -> "Pending"
      [] pc = "fetch" -> "Fetching"
      [] pc = "sanitize" -> "Sanitizing"
      [] pc = "process" -> "Extracting"
      [] pc \in {"parse", "check"} -> "ParsingOutput"
      [] pc \in {"mkdir", "write", "record"} -> "Writing"
      [] pc = "catch" -> "Failing"
      [] OTHER -> "None"

StateRank(s) == CHOOSE n \in 1..Len(PageStates) : PageStates[n] = s

InPageSteps == PageState \in {"Fetching", "Sanitizing", "Extracting",
                              "ParsingOutput", "Writing", "Failing"}

LastResult(rs) == rs[Len(rs)]

\* the page's state stays or moves to the next one in the order
MovesForward ==
    /\ PageState \in {PageStates[n] : n \in 1..Len(PageStates)}
    /\ PageState' \in {PageStates[n] : n \in 1..Len(PageStates)}
    /\ StateRank(PageState') \in {StateRank(PageState), StateRank(PageState) + 1}
    /\ results' = results
    /\ i' = i

\* the page ends Succeeded: out of Writing, its file holding the CSS
EndsSucceeded ==
    /\ PageState = "Writing"
    /\ outputPath(pages[i]) \in DOMAIN files
    /\ files[outputPath(pages[i])] = criticalCss
    /\ results' = Append(results, LastResult(results'))
    /\ LastResult(results').success
    /\ LastResult(results').page = pages[i]
    /\ PageState' = "Pending"
    /\ i' = i + 1

\* the page ends Failed: no CSS in the output, or an error was caught
EndsFailed ==
    /\ PageState \in {"ParsingOutput", "Failing"}
    /\ results' = Append(results, LastResult(results'))
    /\ ~LastResult(results').success
    /\ LastResult(results').page = pages[i]
    /\ PageState' = "Pending"
    /\ i' = i + 1

\* a step of the page throws
StepThrows ==
    /\ PageState \in {"Fetching", "Extracting", "Writing"}
    /\ PageState' = "Failing"
    /\ results' = results
    /\ i' = i

\* everything a write needs has happened for the page at hand
ReadyToWrite ==
    /\ Len(fetched) = i
    /\ fetched[i] = Url(pages[i])
    /\ rawHtml # <<>>
    /\ html = SanitizeHtml(rawHtml, cssInfo.href)
    /\ engineCalls # <<>>
    /\ engineCalls[Len(engineCalls)] = i
    /\ criticalCss # <<>>
    /\ \E n \in 1..Len(criticalCss) : ~IsSpace(criticalCss[n])
    /\ criticalCss = trim(ExtractCriticalCss(processedHtml))

\* C13: a page goes Pending, Fetching, Sanitizing, Extracting, ParsingOutput,
\* Writing in that order and ends Succeeded or Failed, once; it ends
\* Succeeded only out of Writing; a file is written only when the page's
\* fetch succeeded, its HTML was sanitized, the extraction ran and the
\* parsed CSS is non-empty; once a page has its result no step of it runs
C13_PageStateMachine ==
    /\ [][InPageSteps \/ (PageState = "Pending" /\ PageState' # "None") =>
            MovesForward \/ StepThrows \/ EndsSucceeded \/ EndsFailed]_vars
    /\ [][files' # files => PageState = "Writing" /\ ReadyToWrite]_vars
    /\ [](InPageSteps => Len(results) = i - 1 /\ i <= Len(pages))
    /\ [](pc = "returned" => Len(results) = Len(pages))

C13_Witness ==
    /\ pc = "returned"
    /\ Len(results) = 2
    /\ ~results[1].success
    /\ results[2].success
    /\ files # files0

(***************************************************************************)
(* C16                                                                     *)
(***************************************************************************)
\* the request for page k did not give a 2xx response
FetchFailed(k) ==
    \/ responses[k].kind = "rejected"
    \/ /\ responses[k].kind = "response"
       /\ responses[k].status \notin 200..299

\* the error a failed request for page k is to be reported with
ErrorOfFailedFetch(k) ==
    IF responses[k].kind = "rejected"
    THEN responses[k].error
    ELSE [msg |-> "Failed to fetch", url |-> [base |-> baseUrl, uri |-> pages[k].uri],
          status |-> responses[k].status, statusText |-> responses[k].statusText]

\* C16: a non-2xx response fails with an error carrying the requested URL,
\* the status code and the status text, a rejected request with the
\* underlying error; the page is recorded as a failure with that error and
\* its sanitize, extraction and write steps do not run
C16_FetchFailure ==
    /\ [](\A k \in 1..Len(responses) : FetchFailed(k) =>
            /\ \A n \in 1..Len(engineCalls) : engineCalls[n] # k
            /\ k = i => /\ pc = "catch"
                        /\ thrown = ErrorOfFailedFetch(k)
                        /\ html = <<>> /\ processedHtml = <<>> /\ criticalCss = <<>>
            /\ k # i => /\ k <= Len(results)
                        /\ results[k] = [page |-> pages[k], success |-> FALSE,
                                         error |-> ErrorOfFailedFetch(k)])
    /\ [][pc = "catch" /\ FetchFailed(i) =>
            /\ results' = Append(results, [page |-> pages[i], success |-> FALSE,
                                           error |-> thrown])
            /\ files' = files
            /\ dirs' = dirs
            /\ pc' = "loop"]_vars

\* a 404 and a rejected request, both recorded, the run returned
C16_Witness ==
    /\ pc = "returned"
    /\ Len(responses) = 2
    /\ responses[1] = [kind |-> "response", status |-> 404, statusText |-> "Not Found"]
    /\ responses[2].kind = "rejected"
    /\ results[1].error.status = 404
    /\ results[2].error = responses[2].error
    /\ engineCalls = <<>>

(***************************************************************************)
(* C17                                                                     *)
(***************************************************************************)
RequestsFor(k) == {n \in 1..Len(fetched) : fetched[n] = [base |-> baseUrl, uri |-> pages[k].uri]}

EngineCallsFor(k) == {n \in 1..Len(engineCalls) : engineCalls[n] = k}

\* the positions in pages that name the same URI as position k
SameUri(k) == {m \in 1..Len(pages) : pages[m].uri = pages[k].uri}

\* C17: no retries: the n-th request of a run is for the n-th configured
\* page, so each page is requested at most once while the run is under way
\* and exactly once when it has returned, failed or not; the extraction
\* step is called at most once per page
C17_NoRetries ==
    /\ Len(fetched) <= Len(pages)
    /\ \A n \in 1..Len(fetched) : fetched[n] = [base |-> baseUrl, uri |-> pages[n].uri]
    /\ \A k \in 1..Len(pages) :
         /\ Cardinality(RequestsFor(k)) <= Cardinality(SameUri(k))
         /\ Cardinality(EngineCallsFor(k)) <= 1
    /\ pc = "returned" =>
         /\ Len(fetched) = Len(pages)
         /\ \A k \in 1..Len(pages) :
              Cardinality(RequestsFor(k)) = Cardinality(SameUri(k))

\* the first page failed on a rejected request, the second on the engine:
\* one request each, one engine call
C17_Witness ==
    /\ pc = "returned"
    /\ Len(pages) = 2
    /\ pages[1].uri # pages[2].uri
    /\ responses[1].kind = "rejected"
    /\ ~results[2].success
    /\ Len(fetched) = 2
    /\ engineCalls = <<2>>

(***************************************************************************)
(* C19                                                                     *)
(***************************************************************************)
\* the manifest parses and the entry key maps to an object with a non-empty
\* css list
ManifestHasCssList ==
    /\ manifest.kind = "object"
    /\ appEntry \in DOMAIN manifest.entries
    /\ manifest.entries[appEntry].hasCss
    /\ manifest.entries[appEntry].css # <<>>

FirstListedCss == manifest.entries[appEntry].css[1]

LocatorDone ==
    /\ pc \notin {"start", "readManifest", "readdir"}
    /\ ~(pc = "raised" /\ thrown = [msg |-> "EACCES: permission denied, mkdir"])

HasRead(what) == \E n \in 1..Len(reads) : reads[n] = what

\* C19: when the manifest parses and the entry key maps to an object with a
\* non-empty css list, the locator returns the first listed CSS file with
\* absolutePath projectRoot/web/dist/<cssFile> and href /dist/<cssFile> and
\* never reads the fallback directory; the fallback directory is read only
\* when the manifest step has given no result
C19_ManifestPrecedence ==
    /\ ManifestHasCssList => ~HasRead("assets")
    /\ ManifestHasCssList /\ LocatorDone =>
         /\ cssInfo = [absolutePath |-> projectRoot \o <<Dir("web"), Dir("dist")>>
                                            \o FirstListedCss,
                       href |-> <<Dir("dist")>> \o FirstListedCss]
         /\ reads = <<"manifest">>
    /\ HasRead("assets") =>
         /\ reads = <<"manifest", "assets">>
         /\ ~ManifestHasCssList

\* a manifest listing two CSS files, a fallback directory holding a .css file
C19_Witness ==
    /\ ManifestHasCssList
    /\ Len(manifest.entries[appEntry].css) = 2
    /\ \E n \in 1..Len(assets.list) : assets.list[n].ext = "css"
    /\ pc = "returned"
    /\ cssInfo.href = <<Dir("dist")>> \o FirstListedCss
    /\ reads = <<"manifest">>

(***************************************************************************)
(* C15                                                                     *)
(***************************************************************************)
IsOpenTag(t) == t.k = "style"

IsCloseTag(t) == t.k = "/style"

ClosesAfter(h, n) == {m \in (n + 1)..Len(h) : IsCloseTag(h[m])}

Least(S) == CHOOSE n \in S : \A m \in S : n <= m

\* the closing tag of the block opened at n
BlockEnd(h, n) == Least(ClosesAfter(h, n))

\* n opens a style block: it is closed further on and does not lie inside a
\* block opened before it
OpensBlock(h, n) ==
    /\ IsOpenTag(h[n])
    /\ ClosesAfter(h, n) # {}
    /\ ~\E s \in 1..(n - 1) :
          /\ IsOpenTag(h[s])
          /\ \A m \in (s + 1)..(n - 1) : ~IsCloseTag(h[m])

\* the blocks whose opening tag carries data-href
MarkedBlocks(h) ==
    {n \in 1..Len(h) :
        IsOpenTag(h[n]) /\ h[n].a = "data-href" /\ ClosesAfter(h, n) # {}}

\* the block opened at n holds the placeholder the sanitizer left
IsPlaceholderBlock(h, n) ==
    \E m \in n..BlockEnd(h, n) :
        h[m] = [k |-> "comment", v |-> "existing-style-placeholder"]

\* positions of the text inside the blocks that are not placeholder blocks
ContributingPositions(h) ==
    {p \in 1..Len(h) :
        \E n \in 1..Len(h) :
            /\ OpensBlock(h, n)
            /\ ~IsPlaceholderBlock(h, n)
            /\ n < p /\ p < BlockEnd(h, n)}

\* the tokens of h at the positions S, in document order
Pick(h, S) ==
    LET at == CHOOSE f \in [1..Cardinality(S) -> S] :
                  \A a, b \in 1..Cardinality(S) : a < b => f[a] < f[b]
    IN  [k \in 1..Cardinality(S) |-> h[at[k]]]

InGenerate == pc \notin {"cli", "returned", "raised", "exited"}

ReturnedWithoutFailures ==
    /\ summary # [none |-> TRUE]
    /\ summary.failed = 0

\* C18: no step of generateCriticalCss ends the process; the program exits
\* with status 0 exactly when generateCriticalCss has returned a summary with
\* failed = 0, and with a non-zero status when failed > 0 or when it raised
C18_ExitStatus ==
    /\ [][InGenerate => exit' = exit /\ pc' # "exited"]_vars
    /\ [](pc # "exited" => exit = [none |-> TRUE])
    /\ [](pc = "exited" =>
            /\ exit # [none |-> TRUE]
            /\ exit.code = 0 <=> ReturnedWithoutFailures
            /\ ~ReturnedWithoutFailures => exit.code > 0)

\* one page written, one failed: status 1
C18_Witness ==
    /\ pc = "exited"
    /\ summary # [none |-> TRUE]
    /\ summary.successful = 1
    /\ summary.failed = 1
    /\ exit = [code |-> 1]

(***************************************************************************)
(* C20                                                                     *)
(***************************************************************************)
\* the stylesheet links of the sanitized HTML handed to the engine
LinksGivenToEngine ==
    {n \in 1..Len(html) : html[n].k = "link" /\ html[n].rel = "stylesheet"}

\* C20 as claimed: for every publicDir and publicPath, the href the sanitizer
\* injected, resolved against the engine's root projectRoot/publicDir and its
\* URL prefix publicPath, names the file at cssInfo.absolutePath
C20_AsClaimed ==
    pc = "process" =>
        /\ beasties.path = projectRoot \o publicDir
        /\ beasties.publicPath = publicPath
        /\ \A n \in LinksGivenToEngine :
             ResolveHref(html[n].href, beasties.path, beasties.publicPath)
                = cssInfo.absolutePath

(***************************************************************************)
(* C14                                                                     *)
(***************************************************************************)
\* C14: idempotence: a second run with the same config, manifest and assets
\* directory, the site, the engine and the disk answering as in the first,
\* leaves the output files byte for byte as the first run left them and
\* returns an equal summary (or raises, as the first did)
C14_Idempotent ==
    /\ run = 2 /\ pc = "returned" =>
         /\ prev.summary # [none |-> TRUE]
         /\ summary = prev.summary
         /\ files = prev.files
    /\ run = 2 /\ pc = "raised" =>
         /\ prev.summary = [none |-> TRUE]
         /\ files = prev.files

\* the second run has returned: one page written over the first run's file,
\* one failed
C14_Witness ==
    /\ run = 2
    /\ pc = "returned"
    /\ summary.successful = 1
    /\ summary.failed = 1
    /\ \E p \in DOMAIN files : files[p] \notin {<<>>, <<[k |-> "text", v |-> "o"]>>}
    /\ files = prev.files

(***************************************************************************)
(* C21                                                                     *)
(***************************************************************************)
OutputDirCreated == projectRoot \o <<Dir("web"), Dir("dist"), Dir("criticalcss")>> \in dirs

NoPageBegun == fetched = <<>> /\ results = <<>> /\ engineCalls = <<>>

CountOf(s, x) == Cardinality({n \in 1..Len(s) : s[n] = x})

\* the stylesheet links the sanitizer left in h
QuotedStylesheetLinks(h) ==
    {h[n] : n \in {m \in 1..Len(h) :
        h[m].k = "link" /\ h[m].rel = "stylesheet" /\ h[m].q \in {"dq", "sq"}}}

\* C21: the CSS asset is located once per run, after the output directory
\* is created and before the first page is fetched; the value located is
\* used unchanged for the sanitizing of every page, and neither the manifest
\* nor the fallback directory is read during the page loop
C21_LocatedOnce ==
    /\ [][cssInfo' # cssInfo =>
            /\ cssInfo = [none |-> TRUE]
            /\ cssInfo' # [none |-> TRUE]
            /\ OutputDirCreated
            /\ NoPageBegun
            /\ pc' = "loop"]_vars
    /\ [][reads' # reads => OutputDirCreated /\ NoPageBegun /\ cssInfo = [none |-> TRUE]]_vars
    /\ [](CountOf(reads, "manifest") <= 1 /\ CountOf(reads, "assets") <= 1)
    /\ [](fetched # <<>> => cssInfo # [none |-> TRUE] /\ CountOf(reads, "manifest") = 1)
    /\ [][pc = "sanitize" =>
            /\ cssInfo' = cssInfo
            /\ QuotedStylesheetLinks(html') \subseteq
                 {[k |-> "link", c |-> "lower", rel |-> "stylesheet", q |-> "dq",
                   href |-> cssInfo.href]}]_vars

\* two pages sanitized and sent to the engine after one reading of the
\* manifest
C21_Witness ==
    /\ pc = "returned"
    /\ engineCalls = <<1, 2>>
    /\ reads = <<"manifest">>
    /\ cssInfo # [none |-> TRUE]

(***************************************************************************)
(* C22                                                                     *)
(***************************************************************************)
\* the error of a fetch failure, an engine error or an empty extraction
FailedBeforeWriting(e) ==
    e.msg \in {"Failed to fetch", "fetch failed", "beasties.process rejected",
               "No critical CSS extracted"}

NewResult == results'[Len(results')]

\* the output file of the page at hand is as it was when the page began:
\* absent then and now, or there with the same content
OutputFileUntouched ==
    LET path == outputDir \o [n \in 1..Len(pages[i].template) |->
                    IF n = Len(pages[i].template)
                    THEN [base |-> pages[i].template[n], ext |-> "_critical.min.css"]
                    ELSE [base |-> pages[i].template[n], ext |-> ""]]
    IN  /\ path \in DOMAIN pageStart.files <=> path \in DOMAIN files'
        /\ path \in DOMAIN pageStart.files => files'[path] = pageStart.files[path]

\* C22: when a page is recorded Failed through a fetch failure, an engine
\* error or an empty extraction, no directory was created and no file
\* written since the page began: every file, the one at its outputPath
\* among them, is as it was, and none is deleted
C22_FailedPageWritesNothing ==
    /\ [][(/\ Len(results') = Len(results) + 1
           /\ ~NewResult.success
           /\ FailedBeforeWriting(NewResult.error)) =>
            /\ dirs' = pageStart.dirs
            /\ files' = pageStart.files
            /\ OutputFileUntouched]_vars
    /\ [][(pc \in {"fetch", "sanitize", "process", "parse", "check"}) =>
            /\ dirs' = dirs
            /\ files' = files]_vars

\* the first page wrote index_critical.min.css, the second, of the same
\* template, failed on an empty extraction: the file holds the first page's
\* CSS
C22_Witness ==
    /\ Len(results) = 2
    /\ pages[1].template = pages[2].template
    /\ results[1].success
    /\ ~results[2].success
    /\ results[2].error = [msg |-> "No critical CSS extracted"]
    /\ \E p \in DOMAIN files : files[p] \notin {<<>>, <<[k |-> "text", v |-> "o"]>>}
    /\ files = pageStart.files

(***************************************************************************)
(* C23                                                                     *)
(***************************************************************************)
Templates == {pages[k].template : k \in 1..Len(pages)}

\* the output path of template t
PathOf(t) ==
    outputDir \o [n \in 1..Len(t) |->
                    IF n = Len(t)
                    THEN [base |-> t[n], ext |-> "_critical.min.css"]
                    ELSE [base |-> t[n], ext |-> ""]]

\* the pages of template t recorded as success
SucceededWith(t) ==
    {k \in 1..Len(results) : pages[k].template = t /\ results[k].success}

Greatest(S) == CHOOSE n \in S : \A m \in S : m <= n

\* the critical CSS the engine's answer for page k gives
CssOfPage(k) == trim(ExtractCriticalCss(oracle.page[k].out))

\* a page of template t after page k failed in writeFile
WriteRejectedAfter(t, k) ==
    \E m \in (k + 1)..Len(results) :
        /\ pages[m].template = t
        /\ ~results[m].success
        /\ results[m].error = [msg |-> "ENOSPC: no space left on device, write"]

\* C23 as claimed: after the run the file for template T holds the critical
\* CSS of the last page in configured order with template T whose result is
\* success, even if later pages with template T failed
C23_AsClaimed ==
    pc = "returned" =>
        \A t \in Templates :
            SucceededWith(t) # {} =>
                /\ PathOf(t) \in DOMAIN files
                /\ files[PathOf(t)] = CssOfPage(Greatest(SucceededWith(t)))

\* C23: pages sharing a template write to one output path; after the run
\* the file for template T holds the critical CSS of the last page with
\* template T whose result is success, even if later pages with template T
\* failed, unless one of those later pages failed in writeFile itself
C23_LastSuccessWins ==
    pc = "returned" =>
        /\ \A k, m \in 1..Len(pages) :
             pages[k].template = pages[m].template =>
                outputPath(pages[k]) = PathOf(pages[m].template)
        /\ \A t \in Templates :
             (/\ SucceededWith(t) # {}
              /\ ~WriteRejectedAfter(t, Greatest(SucceededWith(t)))) =>
                /\ PathOf(t) \in DOMAIN files
                /\ files[PathOf(t)] = CssOfPage(Greatest(SucceededWith(t)))

\* two pages of one template both succeeded with different CSS: one file,
\* holding the second page's CSS, and successful = 2
C23_Witness ==
    /\ pc = "returned"
    /\ Len(pages) = 2
    /\ pages[1].template = pages[2].template
    /\ summary.successful = 2
    /\ CssOfPage(1) # CssOfPage(2)
    /\ Cardinality(DOMAIN files) = 1
    /\ files[PathOf(pages[2].template)] = CssOfPage(2)

====
